---- MODULE Spec2Model ----
(***************************************************************************)
(* Model of the benchmark runner (src/run.py): the result aggregator       *)
(* (test_results, benchmark_totals, append_table_data), the callback       *)
(* server (BenchmarkHTTPRequestHandler on an HTTPServer served by one      *)
(* daemon thread), the signal tasks started by /BenchmarkComplete, the     *)
(* child browser process, and the controller (main, run_benchmark,         *)
(* start_http_server); and of the comparator (src/compare.py): the test    *)
(* table and the benchmark table computed from two result files.           *)
(*                                                                         *)
(* Spec is the whole runner, ServeSpec the callback server under every     *)
(* kind of request, DrainSpec the end of one run under fair scheduling,    *)
(* CompareSpec the comparator over a set of result files.                  *)
(***************************************************************************)
EXTENDS Integers, Sequences, FiniteSets, TLC

(***************************************************************************)
(* Bounds of the model.                                                    *)
(***************************************************************************)
NumRuns == 2        \* benchmarks selected on the command line
MaxPosts == 2       \* requests the pages of one orchestration send in total
MaxServed == 2      \* requests sent to the server in the specification ServeSpec

(***************************************************************************)
(* Program constants.                                                      *)
(***************************************************************************)
ConnectAttempts == 50
NoProcess == 0      \* server.running_ladybird_process = None (run.py:90)

None == "<None>"
Runs == 1..NumRuns
BenchmarkNames == <<"Speedometer2", "Speedometer3", "StyleBench">>
BenchmarkOf(k) == BenchmarkNames[((k - 1) % 3) + 1]
Benchmarks == {BenchmarkOf(k) : k \in Runs}
BenchmarkSet == {BenchmarkNames[i] : i \in 1..Len(BenchmarkNames)}

(***************************************************************************)
(* JSON values as json.loads returns them.  A dict keeps its items in      *)
(* document order (a sequence of <<key, value>> pairs with distinct keys). *)
(***************************************************************************)
JNum(n) == [t |-> "num", v |-> n, s |-> "", d |-> <<>>]
JStr(str) == [t |-> "str", v |-> 0, s |-> str, d |-> <<>>]
JDict(items) == [t |-> "dict", v |-> 0, s |-> "", d |-> items]

IsDict(x) == x.t = "dict"
IsNumber(x) == x.t = "num"
Has(obj, k) == \E i \in 1..Len(obj.d) : obj.d[i][1] = k
Get(obj, k) == obj.d[CHOOSE i \in 1..Len(obj.d) : obj.d[i][1] = k][2]
Truthy(s) == s # None /\ s # ""

(***************************************************************************)
(* Python dicts of the aggregator: functions whose domain is the key set.  *)
(***************************************************************************)
EmptyDict == <<>>
DictSet(dict, k, val) ==
    IF k \in DOMAIN dict THEN [dict EXCEPT ![k] = val] ELSE (k :> val) @@ dict
SetDefault(dict, k, val) == IF k \in DOMAIN dict THEN dict ELSE (k :> val) @@ dict

\* an aggregator that starts afresh for the benchmark it is given
AppendSampleForgetful(tr, benchmark, suite, test, total) ==
    LET tr1 == benchmark :> (IF benchmark \in DOMAIN tr THEN tr[benchmark]
                                                        ELSE EmptyDict)
        su1 == SetDefault(tr1[benchmark], suite, EmptyDict)
        te1 == SetDefault(su1[suite], test, <<>>)
        te2 == DictSet(te1, test, Append(te1[test], total))
    IN  DictSet(tr1, benchmark, DictSet(su1, suite, te2))

\* src/run.py:26-32
AppendSample(tr, benchmark, suite, test, total) ==
    LET tr1 == SetDefault(tr, benchmark, EmptyDict)
        su1 == SetDefault(tr1[benchmark], suite, EmptyDict)
        te1 == SetDefault(su1[suite], test, <<>>)
        te2 == DictSet(te1, test, Append(te1[test], total))
    IN  DictSet(tr1, benchmark, DictSet(su1, suite, te2))

RECURSIVE append_tests_recursively(_, _, _, _, _)
RECURSIVE AppendTestsItems(_, _, _, _, _)

\* src/run.py:22-39; returns test_results after the walk of json_object
append_tests_recursively(tr, benchmark, json_object, suite, test) ==
    IF ~IsDict(json_object) THEN tr
    ELSE LET tr1 == IF /\ Has(json_object, "total")
                       /\ IsNumber(Get(json_object, "total"))
                       /\ Truthy(suite) /\ Truthy(test)
                    THEN AppendSample(tr, benchmark, suite, test,
                                      Get(json_object, "total"))
                    ELSE tr
         IN  IF Has(json_object, "tests") /\ IsDict(Get(json_object, "tests"))
             THEN AppendTestsItems(tr1, benchmark,
                                   Get(json_object, "tests").d, 1, suite)
             ELSE tr1

\* src/run.py:35-39; the loop over json_object["tests"].items() from item i
AppendTestsItems(tr, benchmark, items, i, suite) ==
    IF i > Len(items) THEN tr
    ELSE LET key == items[i][1]
             value == items[i][2]
             tr1 == IF Truthy(suite)
                    THEN append_tests_recursively(tr, benchmark, value, suite, key)
                    ELSE append_tests_recursively(tr, benchmark, value, key, None)
         IN  AppendTestsItems(tr1, benchmark, items, i + 1, suite)

\* src/run.py:21-52; the aggregator after the call, and whether the call
\* raised (KeyError / TypeError on results["total"] or results["score"])
append_table_data(tr, bt, benchmark, results) ==
    LET tr1 == append_tests_recursively(tr, benchmark, results, None, None)
        bt1 == SetDefault(bt, benchmark, EmptyDict)
        tot1 == SetDefault(bt1[benchmark], "totalTime", <<>>)
        bt2 == DictSet(bt1, benchmark, tot1)
    IN  IF ~(IsDict(results) /\ Has(results, "total"))
        THEN [tr |-> tr1, bt |-> bt2, raised |-> TRUE]
        ELSE LET tot2 == DictSet(tot1, "totalTime",
                                 Append(tot1["totalTime"], Get(results, "total")))
                 tot3 == SetDefault(tot2, "score", <<>>)
                 bt3 == DictSet(bt1, benchmark, tot3)
             IN  IF ~Has(results, "score")
                 THEN [tr |-> tr1, bt |-> bt3, raised |-> TRUE]
                 ELSE [tr |-> tr1,
                       bt |-> DictSet(bt1, benchmark,
                                      DictSet(tot3, "score",
                                              Append(tot3["score"],
                                                     Get(results, "score")))),
                       raised |-> FALSE]

(***************************************************************************)
(* Request bodies.  A body is the text the page sent: json.loads either    *)
(* raises on it (ok = FALSE) or returns the JSON value it denotes.         *)
(***************************************************************************)
Malformed == [ok |-> FALSE, json |-> JNum(0)]
Json(x) == [ok |-> TRUE, json |-> x]
NoBody == Json(JDict(<<>>))

Leaf(n) == JDict(<< <<"total", JNum(n)>> >>)
Tests(items) == <<"tests", JDict(items)>>
Total(n) == <<"total", JNum(n)>>
Score(n) == <<"score", JNum(n)>>

\* one suite "S" with the tests "A" and "B", one sample each
ShallowTests == Tests(<< <<"S", JDict(<< Tests(<< <<"A", Leaf(1)>>,
                                                  <<"B", Leaf(2)>> >>),
                                         Total(3) >>)>> >>)
\* a payload of depth 3: test "A" has the sub-steps "Sync" and "A" below
\* it, each with a total of its own
DeepTests == Tests(<< <<"S", JDict(<< Tests(<< <<"A",
                 JDict(<< Tests(<< <<"Sync", Leaf(1)>>, <<"A", Leaf(2)>> >>),
                          Total(3) >>)>> >>),
                 Total(3) >>)>> >>)

GoodResults == JDict(<< ShallowTests, Total(3), Score(7) >>)
DeepResults == JDict(<< DeepTests, Total(3), Score(7) >>)
NoScoreResults == JDict(<< ShallowTests, Total(3) >>)
NoTotalResults == JDict(<< ShallowTests, Score(7) >>)

IterationBody(b, results) ==
    Json(JDict(<< <<"benchmark", JStr(b)>>, <<"results", results>> >>))
TestBody(b) ==
    Json(JDict(<< <<"benchmark", JStr(b)>>, <<"suite", JStr("S")>>,
                  <<"test", JStr("A")>> >>))

Request(method, path, body) == [method |-> method, path |-> path, body |-> body]

\* what the page of benchmark b posts during a run (ServeSpec below sends
\* the server every other kind of request)
RunRequests(b) ==
    {Request("POST", "/IterationComplete", IterationBody(b, GoodResults)),
     Request("POST", "/IterationComplete", IterationBody(b, NoScoreResults)),
     Request("POST", "/TestComplete", TestBody(b)),
     Request("POST", "/BenchmarkComplete", NoBody),
     Request("POST", "/Other", NoBody)}

\* the "tests" member of a results object, or none
TestsShapes ==
    {<<>>,
     <<ShallowTests>>,
     <<DeepTests>>,
     <<Tests(<< <<"S", JDict(<< Tests(<< <<"A", Leaf(1)>> >>) >>)>> >>)>>,
     <<Tests(<< <<"S", JDict(<< Tests(<< <<"A",
            JDict(<< <<"total", JStr("n/a")>> >>)>> >>), Total(3) >>)>> >>)>>,
     <<Tests(<< <<"S", JDict(<< Tests(<< <<"", Leaf(1)>> >>) >>)>> >>)>>,
     << <<"tests", JNum(5)>> >>}
RootShapes == {<<Total(3), Score(7)>>, <<Total(3)>>, <<Score(7)>>}
AllResults == {JDict(ts \o rs) : ts \in TestsShapes, rs \in RootShapes}

\* everything a client on localhost may send to the server of benchmark b
AllRequests(b) ==
    {Request("POST", "/IterationComplete", IterationBody(b, r)) : r \in AllResults}
    \cup {Request("POST", "/IterationComplete", Malformed),
          Request("POST", "/IterationComplete", IterationBody(b, JNum(5))),
          Request("POST", "/IterationComplete",
                  Json(JDict(<< <<"benchmark", JStr(b)>> >>))),
          Request("POST", "/IterationComplete",
                  Json(JDict(<< <<"results", GoodResults>> >>))),
          Request("POST", "/TestComplete", TestBody(b)),
          Request("POST", "/TestComplete", Malformed),
          Request("POST", "/TestComplete",
                  Json(JDict(<< <<"benchmark", JStr(b)>>,
                                <<"suite", JStr("S")>> >>))),
          Request("POST", "/BenchmarkComplete", NoBody),
          Request("POST", "/Other", NoBody),
          Request("POST", "/IterationComplete?x=1", NoBody),
          Request("GET", "/index.html", NoBody),
          Request("GET", "/missing.html", NoBody),
          Request("GET", "/IterationComplete", NoBody),
          Request("PUT", "/index.html", NoBody)}

\* the files SimpleHTTPRequestHandler finds below the working directory
OrigDir == "orig"
BenchmarkDir(k) == BenchmarkOf(k)
Files(dir) == IF dir = OrigDir THEN {} ELSE {"/index.html"}

(***************************************************************************)
(* State.                                                                  *)
(***************************************************************************)
VARIABLES
    test_results,       \* run.py:19  benchmark -> suite -> test -> samples
    benchmark_totals,   \* run.py:20  benchmark -> {"totalTime", "score"} -> samples
    pc,                 \* the controller thread's position in main / run_benchmark
    run,                \* index of the benchmark of the for loop of main (0: none yet)
    cwd,                \* the process's working directory
    current_dir,        \* run.py:108
    attempts,           \* connect attempts of start_http_server made so far
    pending,            \* the exception in flight while the finally block runs
    reported,           \* "Interrupted by user." has been printed
    written,            \* number of times the output file was written
    exit_status,        \* the status the process exited with, once pc = "exited"
    listener,           \* per run: the HTTPServer "none", "serving", "stopped", "closed"
    shutdown_request,   \* per run: BaseServer.__shutdown_request
    running_ladybird_process,   \* per run: server.running_ladybird_process
    iteration_count,    \* per run: server.iteration_count
    child,              \* per run: the browser process "none", "alive", "exited"
    sigints,            \* per run: send_signal(SIGINT) calls made on the process handle
    reqs,               \* every request sent so far, with what became of it
    queue,              \* ids of the requests waiting in the listening socket
    cur,                \* id of the request the serving thread is handling (0: none)
    hpc,                \* position of the handler in do_POST
    old_data,           \* compare.py:57  the result set loaded from --old
    new_data,           \* compare.py:59  the result set loaded from --new
    cmp_pc,             \* position of main of compare.py
    table,              \* compare.py:64  rows of the test-level table
    score_table         \* compare.py:99  rows of the benchmark-level table

vars == <<test_results, benchmark_totals, pc, run, cwd, current_dir, attempts,
          pending, reported, written, exit_status, listener, shutdown_request,
          running_ladybird_process, iteration_count, child, sigints, reqs,
          queue, cur, hpc, old_data, new_data, cmp_pc, table, score_table>>

aggregator == <<test_results, benchmark_totals>>
controller == <<pc, run, cwd, current_dir, attempts, pending, reported, written,
                exit_status>>
server == <<listener, shutdown_request, running_ladybird_process, iteration_count>>
process == <<child, sigints>>
serving == <<reqs, queue, cur, hpc>>
comparison == <<old_data, new_data, cmp_pc, table, score_table>>

\* a result file without any entry, and the comparator not running
EmptyData == [test_results |-> EmptyDict, benchmark_totals |-> EmptyDict]
NoComparison ==
    /\ old_data = EmptyData
    /\ new_data = EmptyData
    /\ cmp_pc = "idle"
    /\ table = <<>>
    /\ score_table = <<>>

Alive == pc # "exited"

Init ==
    /\ test_results = EmptyDict
    /\ benchmark_totals = EmptyDict
    /\ pc = "main"
    /\ run = 0
    /\ cwd = OrigDir
    /\ current_dir = None
    /\ attempts = 0
    /\ pending = None
    /\ reported = FALSE
    /\ written = 0
    /\ exit_status = 0
    /\ listener = [k \in Runs |-> "none"]
    /\ shutdown_request = [k \in Runs |-> FALSE]
    /\ running_ladybird_process = [k \in Runs |-> NoProcess]
    /\ iteration_count = [k \in Runs |-> 0]
    /\ child = [k \in Runs |-> "none"]
    /\ sigints = [k \in Runs |-> 0]
    /\ reqs = <<>>
    /\ queue = <<>>
    /\ cur = 0
    /\ hpc = "idle"
    /\ NoComparison

(***************************************************************************)
(* The child process and its page.                                         *)
(***************************************************************************)
\* the page of run k sends a request to the address in its URL; the
\* connection waits in the listening socket until the server accepts it
ChildPost(k, r) ==
    /\ Alive
    /\ child[k] = "alive"
    /\ listener[k] \in {"serving", "stopped"}
    /\ Len(reqs) < MaxPosts
    /\ reqs' = Append(reqs, [method |-> r.method, path |-> r.path,
                             body |-> r.body, run |-> k, status |-> 0,
                             state |-> "queued", task |-> "none",
                             complete |-> TRUE])
    /\ queue' = Append(queue, Len(reqs) + 1)
    /\ UNCHANGED <<comparison, aggregator, controller, server, process, cur, hpc>>

\* the page of run k opens a connection and sends only a part of a request
ChildPostPartial(k, r) ==
    /\ Alive
    /\ child[k] = "alive"
    /\ listener[k] \in {"serving", "stopped"}
    /\ Len(reqs) < MaxPosts
    /\ reqs' = Append(reqs, [method |-> r.method, path |-> r.path,
                             body |-> r.body, run |-> k, status |-> 0,
                             state |-> "queued", task |-> "none",
                             complete |-> FALSE])
    /\ queue' = Append(queue, Len(reqs) + 1)
    /\ UNCHANGED <<comparison, aggregator, controller, server, process, cur, hpc>>

\* the page sends the rest of request i
ChildSendRest(i) ==
    /\ Alive
    /\ i \in DOMAIN reqs
    /\ ~reqs[i].complete
    /\ reqs[i].state \in {"queued", "handling"}
    /\ child[reqs[i].run] = "alive"
    /\ reqs' = [reqs EXCEPT ![i].complete = TRUE]
    /\ UNCHANGED <<comparison, aggregator, controller, server, process, queue,
                   cur, hpc>>

\* the browser exits: after a SIGINT, or by itself (window closed, crash)
ChildExit(k) ==
    /\ Alive
    /\ child[k] = "alive"
    /\ child' = [child EXCEPT ![k] = "exited"]
    /\ UNCHANGED <<comparison, aggregator, controller, server, sigints, serving>>

(***************************************************************************)
(* The serving thread: socketserver.BaseServer.serve_forever, started at   *)
(* run.py:92-93, handles one request at a time.                            *)
(***************************************************************************)
Finish(state, status) ==
    /\ reqs' = [reqs EXCEPT ![cur].state = state, ![cur].status = status]
    /\ cur' = 0
    /\ hpc' = "idle"

\* a server that hands every connection to a handler of its own at once
ServeAcceptConcurrently ==
    /\ Alive
    /\ run \in Runs
    /\ listener[run] = "serving"
    /\ ~shutdown_request[run]
    /\ queue # <<>>
    /\ cur' = Head(queue)
    /\ queue' = Tail(queue)
    /\ hpc' = "dispatch"
    /\ reqs' = [reqs EXCEPT ![Head(queue)].state = "handling"]
    /\ UNCHANGED <<comparison, aggregator, controller, server, process>>

\* serve_forever takes the next connection unless shutdown was requested
ServeAccept ==
    /\ Alive
    /\ run \in Runs
    /\ listener[run] = "serving"
    /\ ~shutdown_request[run]
    /\ cur = 0
    /\ queue # <<>>
    /\ cur' = Head(queue)
    /\ queue' = Tail(queue)
    /\ hpc' = "dispatch"
    /\ reqs' = [reqs EXCEPT ![Head(queue)].state = "handling"]
    /\ UNCHANGED <<comparison, aggregator, controller, server, process>>

\* serve_forever leaves its loop once shutdown was requested
ServeStop ==
    /\ Alive
    /\ run \in Runs
    /\ listener[run] = "serving"
    /\ shutdown_request[run]
    /\ cur = 0
    /\ listener' = [listener EXCEPT ![run] = "stopped"]
    /\ UNCHANGED <<comparison, aggregator, controller, shutdown_request,
                   running_ladybird_process, iteration_count, process, serving>>

Handling(method, path) ==
    /\ Alive
    /\ cur # 0
    /\ hpc = "dispatch"
    /\ reqs[cur].complete
    /\ reqs[cur].method = method
    /\ reqs[cur].path = path

\* run.py:54; the handler waits for the request line (the socket has no
\* timeout); when the browser has exited its connections are closed, the
\* read returns nothing and the handler returns without a call of do_POST
ConnectionClosed ==
    /\ Alive
    /\ cur # 0
    /\ hpc = "dispatch"
    /\ ~reqs[cur].complete
    /\ child[reqs[cur].run] = "exited"
    /\ Finish("error", 0)
    /\ UNCHANGED <<comparison, aggregator, controller, server, process, queue>>

\* a /TestComplete handler that records a sample of its own
TestCompleteIngests ==
    /\ Handling("POST", "/TestComplete")
    /\ test_results' = AppendSample(test_results, BenchmarkOf(run), "S", "A", JNum(0))
    /\ Finish("done", 0)
    /\ UNCHANGED <<comparison, benchmark_totals, controller, server, process,
                   queue>>

\* run.py:56-60; an exception leaves do_POST and the connection is closed
TestComplete ==
    /\ Handling("POST", "/TestComplete")
    /\ LET body == reqs[cur].body
           ok == /\ body.ok
                 /\ Has(body.json, "benchmark")
                 /\ Has(body.json, "suite")
                 /\ Has(body.json, "test")
       IN  Finish(IF ok THEN "done" ELSE "error", 0)
    /\ UNCHANGED <<comparison, aggregator, controller, server, process, queue>>

\* run.py:63-67
IterationCompleteIngest ==
    /\ Handling("POST", "/IterationComplete")
    /\ iteration_count' = [iteration_count EXCEPT ![run] = @ + 1]
    /\ LET body == reqs[cur].body
           ok == /\ body.ok
                 /\ Has(body.json, "benchmark")
                 /\ Has(body.json, "results")
       IN  IF ~ok
           THEN /\ Finish("error", 0)
                /\ UNCHANGED aggregator
           ELSE LET res == append_table_data(test_results, benchmark_totals,
                                             Get(body.json, "benchmark").s,
                                             Get(body.json, "results"))
                IN  /\ test_results' = res.tr
                    /\ benchmark_totals' = res.bt
                    /\ IF res.raised
                       THEN Finish("error", 0)
                       ELSE /\ hpc' = "respond"
                            /\ UNCHANGED <<reqs, cur>>
    /\ UNCHANGED <<comparison, controller, listener, shutdown_request,
                   running_ladybird_process, process, queue>>

\* run.py:68-69
IterationCompleteRespond ==
    /\ Alive
    /\ cur # 0
    /\ hpc = "respond"
    /\ Finish("done", 200)
    /\ UNCHANGED <<comparison, aggregator, controller, server, process, queue>>

\* a handler that starts the signal task before it answers
BenchmarkCompleteSignalFirst ==
    /\ Handling("POST", "/BenchmarkComplete")
    /\ reqs' = [reqs EXCEPT ![cur].task = "started"]
    /\ hpc' = "spawn"
    /\ UNCHANGED <<comparison, aggregator, controller, server, process, queue, cur>>

\* run.py:76-77
BenchmarkCompleteRespond ==
    /\ Handling("POST", "/BenchmarkComplete")
    /\ reqs' = [reqs EXCEPT ![cur].status = 200]
    /\ hpc' = "spawn"
    /\ UNCHANGED <<comparison, aggregator, controller, server, process, queue, cur>>

\* run.py:78-79; the thread of run_callback is started, do_POST returns
BenchmarkCompleteSpawn ==
    /\ Alive
    /\ cur # 0
    /\ hpc = "spawn"
    /\ reqs' = [reqs EXCEPT ![cur].state = "done", ![cur].task = "started"]
    /\ cur' = 0
    /\ hpc' = "idle"
    /\ UNCHANGED <<comparison, aggregator, controller, server, process, queue>>

\* run.py:72-74; the task started for request r
run_callback(r) ==
    /\ Alive
    /\ r \in DOMAIN reqs
    /\ reqs[r].task = "started"
    /\ LET k == reqs[r].run
       IN  IF running_ladybird_process[k] # NoProcess
           THEN /\ sigints' = [sigints EXCEPT ![k] = @ + 1]
                /\ reqs' = [reqs EXCEPT ![r].task = "signalled"]
           ELSE /\ reqs' = [reqs EXCEPT ![r].task = "skipped"]
                /\ UNCHANGED sigints
    /\ UNCHANGED <<comparison, aggregator, controller, server, child, queue, cur, hpc>>

\* an else branch that returns without answering
NotFoundSilent ==
    /\ Alive
    /\ cur # 0
    /\ hpc = "dispatch"
    /\ reqs[cur].complete
    /\ reqs[cur].method = "POST"
    /\ reqs[cur].path \notin {"/TestComplete", "/IterationComplete",
                               "/BenchmarkComplete"}
    /\ Finish("done", 0)
    /\ UNCHANGED <<comparison, aggregator, controller, server, process, queue>>

\* run.py:80-81
NotFound ==
    /\ Alive
    /\ cur # 0
    /\ hpc = "dispatch"
    /\ reqs[cur].complete
    /\ reqs[cur].method = "POST"
    /\ reqs[cur].path \notin {"/TestComplete", "/IterationComplete",
                               "/BenchmarkComplete"}
    /\ Finish("done", 404)
    /\ UNCHANGED <<comparison, aggregator, controller, server, process, queue>>

\* run.py:54; do_GET is inherited from SimpleHTTPRequestHandler, which
\* serves the files below the working directory
do_GET ==
    /\ Alive
    /\ cur # 0
    /\ hpc = "dispatch"
    /\ reqs[cur].complete
    /\ reqs[cur].method = "GET"
    /\ Finish("done", IF reqs[cur].path \in Files(cwd) THEN 200 ELSE 404)
    /\ UNCHANGED <<comparison, aggregator, controller, server, process, queue>>

\* run.py:54; BaseHTTPRequestHandler answers a method that has no do_
\* method with 501
Unsupported ==
    /\ Alive
    /\ cur # 0
    /\ hpc = "dispatch"
    /\ reqs[cur].complete
    /\ reqs[cur].method \notin {"GET", "HEAD", "POST"}
    /\ Finish("done", 501)
    /\ UNCHANGED <<comparison, aggregator, controller, server, process, queue>>

(***************************************************************************)
(* The controller thread: main, run_benchmark, start_http_server.          *)
(***************************************************************************)
Exit(status) ==
    /\ pc' = "exited"
    /\ exit_status' = status

\* run.py:166-168
CheckExecutable ==
    /\ Alive
    /\ pc = "main"
    /\ \E is_file \in BOOLEAN :
          IF is_file
          THEN pc' = "loop" /\ UNCHANGED exit_status
          ELSE Exit(1)
    /\ UNCHANGED <<comparison, aggregator, run, cwd, current_dir, attempts, pending,
                   reported, written, server, process, serving>>

\* run.py:179-187; the next benchmark of the for loop, or the end of it
NextBenchmark ==
    /\ Alive
    /\ pc = "loop"
    /\ IF run = NumRuns
       THEN pc' = "report" /\ UNCHANGED <<run, exit_status>>
       ELSE /\ run' = run + 1
            /\ \E exists \in BOOLEAN :
                  IF exists
                  THEN pc' = "run_benchmark" /\ UNCHANGED exit_status
                  ELSE Exit(1)
    /\ UNCHANGED <<comparison, aggregator, cwd, current_dir, attempts, pending,
                   reported, written, server, process, serving>>

\* run.py:108-109
EnterBenchmarkDir ==
    /\ Alive
    /\ pc = "run_benchmark"
    /\ current_dir' = cwd
    /\ cwd' = BenchmarkDir(run)
    /\ pc' = "start_http_server"
    /\ UNCHANGED <<comparison, aggregator, run, attempts, pending, reported, written,
                   exit_status, server, process, serving>>

\* run.py:89-93; a new server object with a new listening socket
start_http_server ==
    /\ Alive
    /\ pc = "start_http_server"
    /\ listener' = [listener EXCEPT ![run] = "serving"]
    /\ running_ladybird_process' = [running_ladybird_process EXCEPT ![run] = NoProcess]
    /\ iteration_count' = [iteration_count EXCEPT ![run] = 1]
    /\ queue' = <<>>
    /\ attempts' = 0
    /\ pc' = "connect"
    /\ UNCHANGED <<comparison, aggregator, run, cwd, current_dir, pending, reported,
                   written, exit_status, shutdown_request, process, reqs,
                   cur, hpc>>

\* run.py:94-99; one attempt of the loop, which connects or raises OSError
Connect ==
    /\ Alive
    /\ pc = "connect"
    /\ attempts < ConnectAttempts
    /\ \E connected \in BOOLEAN :
          IF connected
          THEN pc' = "Popen" /\ attempts' = 0
          ELSE attempts' = attempts + 1 /\ UNCHANGED pc
    /\ UNCHANGED <<comparison, aggregator, run, cwd, current_dir, pending, reported,
                   written, exit_status, server, process, serving>>

\* a controller that goes on to launch the browser after the last attempt
StartupFailedProceeds ==
    /\ Alive
    /\ pc = "connect"
    /\ attempts = ConnectAttempts
    /\ pc' = "Popen"
    /\ UNCHANGED <<comparison, aggregator, run, cwd, current_dir, attempts, pending,
                   reported, written, exit_status, server, process, serving>>

\* run.py:100-102; the else branch of the loop calls server.shutdown()
StartupFailed ==
    /\ Alive
    /\ pc = "connect"
    /\ attempts = ConnectAttempts
    /\ shutdown_request' = [shutdown_request EXCEPT ![run] = TRUE]
    /\ pc' = "startup_shutdown"
    /\ UNCHANGED <<comparison, aggregator, run, cwd, current_dir, attempts, pending,
                   reported, written, exit_status, listener,
                   running_ladybird_process, iteration_count, process, serving>>

\* run.py:102-103; shutdown() returns once serve_forever has left its loop
StartupExit ==
    /\ Alive
    /\ pc = "startup_shutdown"
    /\ listener[run] = "stopped"
    /\ Exit(1)
    /\ UNCHANGED <<comparison, aggregator, run, cwd, current_dir, attempts, pending,
                   reported, written, server, process, serving>>

\* run.py:119-123; Popen starts the browser or raises OSError
Popen ==
    /\ Alive
    /\ pc = "Popen"
    /\ \E started \in BOOLEAN :
          IF started
          THEN /\ child' = [child EXCEPT ![run] = "alive"]
               /\ pc' = "register"
               /\ UNCHANGED pending
          ELSE /\ pending' = "OSError"
               /\ pc' = "finally"
               /\ UNCHANGED child
    /\ UNCHANGED <<comparison, aggregator, run, cwd, current_dir, attempts, reported,
                   written, exit_status, server, sigints, serving>>

\* run.py:124
Register ==
    /\ Alive
    /\ pc = "register"
    /\ running_ladybird_process' = [running_ladybird_process EXCEPT ![run] = run]
    /\ pc' = "communicate"
    /\ UNCHANGED <<comparison, aggregator, run, cwd, current_dir, attempts, pending,
                   reported, written, exit_status, listener, shutdown_request,
                   iteration_count, process, serving>>

\* a controller that does not wait for the browser to exit
CommunicateNoWait ==
    /\ Alive
    /\ pc = "communicate"
    /\ pc' = "finally"
    /\ UNCHANGED <<comparison, aggregator, run, cwd, current_dir, attempts, pending,
                   reported, written, exit_status, server, process, serving>>

\* run.py:126; communicate() returns when the child has exited
Communicate ==
    /\ Alive
    /\ pc = "communicate"
    /\ child[run] = "exited"
    /\ pc' = "finally"
    /\ UNCHANGED <<comparison, aggregator, run, cwd, current_dir, attempts, pending,
                   reported, written, exit_status, server, process, serving>>

TryBlock == {"Popen", "register", "communicate"}
ExceptBlock == {"except", "sys_exit"}
FinallyBlock == {"finally", "shutdown_wait", "server_close", "join", "chdir_back"}

\* SIGINT raises KeyboardInterrupt in the controller thread wherever it is:
\* in the try block the except clause of run.py:128 catches it, in the except
\* clause it replaces the exception in flight and the finally block runs,
\* anywhere else nothing catches it and the interpreter exits
KeyboardInterrupt ==
    /\ Alive
    /\ IF pc \in TryBlock
       THEN pc' = "except" /\ UNCHANGED <<pending, exit_status>>
       ELSE IF pc \in ExceptBlock
       THEN pc' = "finally" /\ pending' = "KeyboardInterrupt"
            /\ UNCHANGED exit_status
       ELSE Exit(130) /\ pending' = "KeyboardInterrupt"
    /\ UNCHANGED <<comparison, aggregator, run, cwd, current_dir, attempts, reported,
                   written, server, process, serving>>

\* run.py:129
ReportInterrupt ==
    /\ Alive
    /\ pc = "except"
    /\ reported' = TRUE
    /\ pc' = "sys_exit"
    /\ UNCHANGED <<comparison, aggregator, run, cwd, current_dir, attempts, pending,
                   written, exit_status, server, process, serving>>

\* an except clause that ends the process at once (os._exit)
SysExitAtOnce ==
    /\ Alive
    /\ pc = "sys_exit"
    /\ pending' = "SystemExit"
    /\ Exit(1)
    /\ UNCHANGED <<comparison, aggregator, run, cwd, current_dir, attempts, reported,
                   written, server, process, serving>>

\* run.py:130; sys.exit raises SystemExit, which the finally block defers
SysExit ==
    /\ Alive
    /\ pc = "sys_exit"
    /\ pending' = "SystemExit"
    /\ pc' = "finally"
    /\ UNCHANGED <<comparison, aggregator, run, cwd, current_dir, attempts, reported,
                   written, exit_status, server, process, serving>>

\* a finally block that only restores the working directory
FinallyWithoutShutdown ==
    /\ Alive
    /\ pc = "finally"
    /\ pc' = "chdir_back"
    /\ UNCHANGED <<comparison, aggregator, run, cwd, current_dir, attempts, pending,
                   reported, written, exit_status, server, process, serving>>

\* a shutdown() that waits for the serving loop without asking it to stop
ShutdownWithoutRequest ==
    /\ Alive
    /\ pc = "finally"
    /\ pc' = "shutdown_wait"
    /\ UNCHANGED <<comparison, aggregator, run, cwd, current_dir, attempts, pending,
                   reported, written, exit_status, server, process, serving>>

\* run.py:132; shutdown() sets the request flag and waits
Shutdown ==
    /\ Alive
    /\ pc = "finally"
    /\ shutdown_request' = [shutdown_request EXCEPT ![run] = TRUE]
    /\ pc' = "shutdown_wait"
    /\ UNCHANGED <<comparison, aggregator, run, cwd, current_dir, attempts, pending,
                   reported, written, exit_status, listener,
                   running_ladybird_process, iteration_count, process, serving>>

\* run.py:132; shutdown() returns once serve_forever has left its loop
ShutdownReturn ==
    /\ Alive
    /\ pc = "shutdown_wait"
    /\ listener[run] = "stopped"
    /\ pc' = "server_close"
    /\ UNCHANGED <<comparison, aggregator, run, cwd, current_dir, attempts, pending,
                   reported, written, exit_status, server, process, serving>>

\* run.py:133
ServerClose ==
    /\ Alive
    /\ pc = "server_close"
    /\ listener' = [listener EXCEPT ![run] = "closed"]
    /\ pc' = "join"
    /\ UNCHANGED <<comparison, aggregator, run, cwd, current_dir, attempts, pending,
                   reported, written, exit_status, shutdown_request,
                   running_ladybird_process, iteration_count, process, serving>>

\* run.py:134; the serving thread has left serve_forever, the join returns
Join ==
    /\ Alive
    /\ pc = "join"
    /\ pc' = "chdir_back"
    /\ UNCHANGED <<comparison, aggregator, run, cwd, current_dir, attempts, pending,
                   reported, written, exit_status, server, process, serving>>

\* a controller that writes the output file at the end of every run
LeaveBenchmarkDirWrites ==
    /\ Alive
    /\ pc = "chdir_back"
    /\ cwd' = current_dir
    /\ written' = written + 1
    /\ IF pending = None
       THEN pc' = "loop" /\ UNCHANGED exit_status
       ELSE Exit(IF pending = "KeyboardInterrupt" THEN 130 ELSE 1)
    /\ UNCHANGED <<comparison, aggregator, run, current_dir, attempts, pending, reported,
                   server, process, serving>>

\* run.py:135, then the exception in flight goes on: SystemExit(1) and an
\* uncaught OSError end the process with status 1, KeyboardInterrupt with 130
LeaveBenchmarkDir ==
    /\ Alive
    /\ pc = "chdir_back"
    /\ cwd' = current_dir
    /\ IF pending = None
       THEN pc' = "loop" /\ UNCHANGED exit_status
       ELSE Exit(IF pending = "KeyboardInterrupt" THEN 130 ELSE 1)
    /\ UNCHANGED <<comparison, aggregator, run, current_dir, attempts, pending, reported,
                   written, server, process, serving>>

\* run.py:204-210: values["score"] and values["totalTime"] must exist
\* (KeyError) and hold a sample (statistics.mean raises StatisticsError)
ReportReady ==
    \A b \in DOMAIN benchmark_totals :
        /\ "score" \in DOMAIN benchmark_totals[b]
        /\ benchmark_totals[b]["score"] # <<>>
        /\ "totalTime" \in DOMAIN benchmark_totals[b]
        /\ benchmark_totals[b]["totalTime"] # <<>>

\* run.py:189-217; the tables are computed and printed, or an exception
\* ends the process
Report ==
    /\ Alive
    /\ pc = "report"
    /\ IF ReportReady
       THEN pc' = "write" /\ UNCHANGED exit_status
       ELSE Exit(1)
    /\ UNCHANGED <<comparison, aggregator, run, cwd, current_dir, attempts, pending,
                   reported, written, server, process, serving>>

\* run.py:219-223
WriteOutput ==
    /\ Alive
    /\ pc = "write"
    /\ written' = written + 1
    /\ Exit(0)
    /\ UNCHANGED <<comparison, aggregator, run, cwd, current_dir, attempts, pending,
                   reported, server, process, serving>>

Next ==
    \/ \E k \in Runs : \E r \in RunRequests(BenchmarkOf(k)) : ChildPost(k, r)
    \/ \E k \in Runs : ChildExit(k)
    \/ ServeAccept
    \/ ServeStop
    \/ TestComplete
    \/ IterationCompleteIngest
    \/ IterationCompleteRespond
    \/ BenchmarkCompleteRespond
    \/ BenchmarkCompleteSpawn
    \/ \E r \in 1..MaxPosts : run_callback(r)
    \/ NotFound
    \/ CheckExecutable
    \/ NextBenchmark
    \/ EnterBenchmarkDir
    \/ start_http_server
    \/ Connect
    \/ StartupFailed
    \/ StartupExit
    \/ Popen
    \/ Register
    \/ Communicate
    \/ KeyboardInterrupt
    \/ ReportInterrupt
    \/ SysExit
    \/ Shutdown
    \/ ShutdownReturn
    \/ ServerClose
    \/ Join
    \/ LeaveBenchmarkDir
    \/ Report
    \/ WriteOutput

Spec == Init /\ [][Next]_vars

(***************************************************************************)
(* The callback server alone: the controller is blocked in communicate()   *)
(* of the first run (run.py:126), the browser is alive, and any client     *)
(* sends any request; the server handles them one after the other.         *)
(***************************************************************************)
ServeInit ==
    /\ test_results = EmptyDict
    /\ benchmark_totals = EmptyDict
    /\ pc = "communicate"
    /\ run = 1
    /\ cwd = BenchmarkDir(1)
    /\ current_dir = OrigDir
    /\ attempts = 0
    /\ pending = None
    /\ reported = FALSE
    /\ written = 0
    /\ exit_status = 0
    /\ listener = [k \in Runs |-> IF k = 1 THEN "serving" ELSE "none"]
    /\ shutdown_request = [k \in Runs |-> FALSE]
    /\ running_ladybird_process = [k \in Runs |-> IF k = 1 THEN 1 ELSE NoProcess]
    /\ iteration_count = [k \in Runs |-> IF k = 1 THEN 1 ELSE 0]
    /\ child = [k \in Runs |-> IF k = 1 THEN "alive" ELSE "none"]
    /\ sigints = [k \in Runs |-> 0]
    /\ reqs = <<>>
    /\ queue = <<>>
    /\ cur = 0
    /\ hpc = "idle"
    /\ NoComparison

\* a client sends the next request once the previous one was taken
ClientPost(r) ==
    /\ queue = <<>>
    /\ Len(reqs) < MaxServed
    /\ reqs' = Append(reqs, [method |-> r.method, path |-> r.path,
                             body |-> r.body, run |-> 1, status |-> 0,
                             state |-> "queued", task |-> "none",
                             complete |-> TRUE])
    /\ queue' = Append(queue, Len(reqs) + 1)
    /\ UNCHANGED <<comparison, aggregator, controller, server, process, cur, hpc>>

ServeNext ==
    \/ \E r \in AllRequests(BenchmarkOf(1)) : ClientPost(r)
    \/ ServeAccept
    \/ TestComplete
    \/ IterationCompleteIngest
    \/ IterationCompleteRespond
    \/ BenchmarkCompleteRespond
    \/ BenchmarkCompleteSpawn
    \/ \E r \in 1..MaxServed : run_callback(r)
    \/ NotFound
    \/ do_GET
    \/ Unsupported

ServeSpec == ServeInit /\ [][ServeNext]_vars

(***************************************************************************)
(* One run from the blocking wait to its end (run.py:126-135): the         *)
(* controller is in communicate(), the page sends whole and partial         *)
(* requests, the browser exits at some moment or the user interrupts.  The *)
(* controller thread and the serving thread are scheduled fairly; the page,*)
(* the browser, the user and the signal tasks are not obliged to act.      *)
(***************************************************************************)
ControllerStep ==
    \/ Communicate
    \/ ReportInterrupt
    \/ SysExit
    \/ Shutdown
    \/ ShutdownReturn
    \/ ServerClose
    \/ Join
    \/ LeaveBenchmarkDir

ServingStep ==
    \/ ServeAccept
    \/ ServeStop
    \/ ConnectionClosed
    \/ TestComplete
    \/ IterationCompleteIngest
    \/ IterationCompleteRespond
    \/ BenchmarkCompleteRespond
    \/ BenchmarkCompleteSpawn
    \/ NotFound

\* what the page posts while the run ends: one request of every route,
\* the iteration with a payload of one suite and one test
SmallResults ==
    JDict(<< Tests(<< <<"S", JDict(<< Tests(<< <<"A", Leaf(1)>> >>) >>)>> >>),
             Total(3), Score(7) >>)
DrainRequests(b) ==
    {Request("POST", "/IterationComplete", IterationBody(b, SmallResults)),
     Request("POST", "/TestComplete", TestBody(b)),
     Request("POST", "/BenchmarkComplete", NoBody),
     Request("POST", "/Other", NoBody)}

DrainNext ==
    \/ \E r \in DrainRequests(BenchmarkOf(1)) : ChildPost(1, r)
    \/ \E r \in DrainRequests(BenchmarkOf(1)) : ChildPostPartial(1, r)
    \/ \E i \in 1..MaxPosts : ChildSendRest(i)
    \/ ChildExit(1)
    \/ \E r \in 1..MaxPosts : run_callback(r)
    \/ KeyboardInterrupt
    \/ ControllerStep
    \/ ServingStep

DrainSpec ==
    /\ ServeInit
    /\ [][DrainNext]_vars
    /\ WF_vars(ControllerStep)
    /\ WF_vars(ServingStep)

(***************************************************************************)
(* The comparator (src/compare.py).  Samples are integers; a mean is kept  *)
(* as the exact fraction sum / count, and a formatted number as the        *)
(* integer it shows when the decimal point is dropped ("1.50" is 150).     *)
(* With the samples used here no quotient lies on a rounding boundary, so  *)
(* rounding to nearest is what the float formatting does.                  *)
(***************************************************************************)
RECURSIVE Sum(_)
Sum(data) == IF data = <<>> THEN 0 ELSE Head(data) + Sum(Tail(data))

RECURSIVE SumSquares(_)
SumSquares(data) ==
    IF data = <<>> THEN 0 ELSE Head(data) * Head(data) + SumSquares(Tail(data))

\* f"{num / den:.Nf}" with scale = 10^N, for num >= 0 and den > 0
Fixed(num, den, scale) == (2 * scale * num + den) \div (2 * den)

\* compare.py:10-15; the half width of the interval is stderr times the t
\* quantile: it is zero exactly when n <= 1 or all samples are equal, and
\* otherwise a function of n and of n^2 times the sample variance (spread)
confidence_interval(data) ==
    LET n == Len(data)
        spread == n * SumSquares(data) - Sum(data) * Sum(data)
    IN  [n |-> n, spread |-> IF n > 1 THEN spread ELSE 0]

\* the cells of the tables
\* the placeholder cell, an em dash
Placeholder == [text |-> "dash", mean |-> 0, n |-> 0, spread |-> 0]
Blank == [text |-> "", mean |-> 0, n |-> 0, spread |-> 0]
Ratio(num, den) == [text |-> "ratio", mean |-> Fixed(num, den, 1000), n |-> 0,
                    spread |-> 0]

\* compare.py:18-23, for data that is not empty (statistics.mean raises
\* StatisticsError on an empty list)
format_mean_confidence_interval(data) ==
    LET ci == confidence_interval(data)
    IN  IF ci.spread = 0
        THEN [text |-> "mean", mean |-> Fixed(Sum(data), Len(data), 100),
              n |-> 0, spread |-> 0]
        ELSE [text |-> "mean +- half width",
              mean |-> Fixed(Sum(data), Len(data), 100),
              n |-> ci.n, spread |-> ci.spread]

\* a stored series: a list of numbers (flat) or a list of lists (runs)
FlatSeries(values) == [nested |-> FALSE, flat |-> values, runs |-> <<>>]
NestedSeries(runs) == [nested |-> TRUE, flat |-> <<>>, runs |-> runs]
SeriesLen(values_list) ==
    IF values_list.nested THEN Len(values_list.runs) ELSE Len(values_list.flat)

RECURSIVE Flatten(_)
Flatten(runs) == IF runs = <<>> THEN <<>> ELSE Head(runs) \o Flatten(Tail(runs))

\* compare.py:32
FlatValues(values_list) ==
    IF values_list.nested THEN Flatten(values_list.runs) ELSE values_list.flat

\* compare.py:29-31: the keys the three loops visit
StoredKeys(data) ==
    LET tr == data.test_results
    IN  UNION {UNION {{<<b, su, te>> : te \in DOMAIN tr[b][su]} :
                         su \in DOMAIN tr[b]} : b \in DOMAIN tr}
StoredSeries(data, k) == data.test_results[k[1]][k[2]][k[3]]

\* compare.py:32: values_list[0] raises IndexError on an empty list
ExtractRaises(data) ==
    \E k \in StoredKeys(data) : SeriesLen(StoredSeries(data, k)) = 0

\* compare.py:26-43 with the dict comprehension of compare.py:61-62: the
\* keys that have values, with their flattened values
extract_tests(data) ==
    LET keys == {k \in StoredKeys(data) :
                    FlatValues(StoredSeries(data, k)) # <<>>}
    IN  [k \in keys |-> FlatValues(StoredSeries(data, k))]

\* sorted() on tuples of strings: Python orders strings by code point
NameOrder == <<"A", "B", "S", "Speedometer2", "Speedometer3", "StyleBench">>
Rank(name) == CHOOSE i \in 1..Len(NameOrder) : NameOrder[i] = name
KeyLess(k1, k2) ==
    \/ Rank(k1[1]) < Rank(k2[1])
    \/ k1[1] = k2[1] /\ Rank(k1[2]) < Rank(k2[2])
    \/ k1[1] = k2[1] /\ k1[2] = k2[2] /\ Rank(k1[3]) < Rank(k2[3])

RECURSIVE SortedKeys(_)
SortedKeys(keys) ==
    IF keys = {} THEN <<>>
    ELSE LET first == CHOOSE k \in keys : \A o \in keys \ {k} : KeyLess(k, o)
         IN  <<first>> \o SortedKeys(keys \ {first})

RECURSIVE SortedNames(_)
SortedNames(names) ==
    IF names = {} THEN <<>>
    ELSE LET first == CHOOSE a \in names :
                          \A o \in names \ {a} : Rank(a) < Rank(o)
         IN  <<first>> \o SortedNames(names \ {first})

ValuesOf(tests, key) == IF key \in DOMAIN tests THEN tests[key] ELSE <<>>

\* compare.py:81: old_mean / new_mean raises ZeroDivisionError
TestRowRaises(old_vals, new_vals) ==
    old_vals # <<>> /\ new_vals # <<>> /\ Sum(new_vals) = 0

\* compare.py:69-92
TestRow(key, old_vals, new_vals) ==
    IF old_vals = <<>> \/ new_vals = <<>>
    THEN [key |-> key, speedup |-> Blank,
          old |-> IF old_vals # <<>>
                  THEN format_mean_confidence_interval(old_vals) ELSE Placeholder,
          new |-> IF new_vals # <<>>
                  THEN format_mean_confidence_interval(new_vals) ELSE Placeholder]
    ELSE [key |-> key,
          speedup |-> Ratio(Sum(old_vals) * Len(new_vals),
                            Len(old_vals) * Sum(new_vals)),
          old |-> format_mean_confidence_interval(old_vals),
          new |-> format_mean_confidence_interval(new_vals)]

\* compare.py:61-92; whether the test-level comparison raises, and its rows
compareTests(old, new) ==
    IF ExtractRaises(old) \/ ExtractRaises(new)
    THEN [raised |-> TRUE, rows |-> <<>>]
    ELSE LET old_tests == extract_tests(old)
             new_tests == extract_tests(new)
             keys == SortedKeys(DOMAIN old_tests \cup DOMAIN new_tests)
         IN  IF \E i \in 1..Len(keys) :
                    TestRowRaises(ValuesOf(old_tests, keys[i]),
                                  ValuesOf(new_tests, keys[i]))
             THEN [raised |-> TRUE, rows |-> <<>>]
             ELSE [raised |-> FALSE,
                   rows |-> [i \in 1..Len(keys) |->
                               TestRow(keys[i], ValuesOf(old_tests, keys[i]),
                                       ValuesOf(new_tests, keys[i]))]]

\* compare.py:103-109: scores.get(bench, {}).get(series, [])
TotalsOf(data, bench, series) ==
    IF /\ bench \in DOMAIN data.benchmark_totals
       /\ series \in DOMAIN data.benchmark_totals[bench]
    THEN data.benchmark_totals[bench][series] ELSE <<>>

\* compare.py:114-117 and 128; num / den is the ratio of the two means
RatioCell(num_vals, den_vals) ==
    IF num_vals # <<>> /\ den_vals # <<>> /\ Sum(den_vals) # 0
    THEN Ratio(Sum(num_vals) * Len(den_vals), Len(num_vals) * Sum(den_vals))
    ELSE Placeholder

\* compare.py:126-130: format_mean_confidence_interval is called on all four
\* series whether they are empty or not
ScoreRowRaises(old_score, new_score, old_time, new_time) ==
    old_score = <<>> \/ new_score = <<>> \/ old_time = <<>> \/ new_time = <<>>

\* compare.py:102-132
ScoreRow(bench, old_score, new_score, old_time, new_time) ==
    [bench |-> bench,
     old_score |-> format_mean_confidence_interval(old_score),
     new_score |-> format_mean_confidence_interval(new_score),
     score_improvement |-> RatioCell(new_score, old_score),
     old_time |-> format_mean_confidence_interval(old_time),
     new_time |-> format_mean_confidence_interval(new_time),
     speedup |-> RatioCell(old_time, new_time)]

\* compare.py:96-132; whether the benchmark-level comparison raises, and
\* its rows
compareBenchmarks(old, new) ==
    LET names == SortedNames(DOMAIN old.benchmark_totals
                             \cup DOMAIN new.benchmark_totals)
    IN  IF \E i \in 1..Len(names) :
               ScoreRowRaises(TotalsOf(old, names[i], "score"),
                              TotalsOf(new, names[i], "score"),
                              TotalsOf(old, names[i], "totalTime"),
                              TotalsOf(new, names[i], "totalTime"))
        THEN [raised |-> TRUE, rows |-> <<>>]
        ELSE [raised |-> FALSE,
              rows |-> [i \in 1..Len(names) |->
                          ScoreRow(names[i],
                                   TotalsOf(old, names[i], "score"),
                                   TotalsOf(new, names[i], "score"),
                                   TotalsOf(old, names[i], "totalTime"),
                                   TotalsOf(new, names[i], "totalTime"))]]

(***************************************************************************)
(* The result files the comparator is run on.  A file of run.py holds flat *)
(* series; any JSON file of the same layout is accepted.                   *)
(***************************************************************************)
SeriesChoices ==
    {FlatSeries(<<>>), FlatSeries(<<0>>), FlatSeries(<<3>>),
     FlatSeries(<<1, 2>>), NestedSeries(<<<<1>>, <<2>>>>),
     NestedSeries(<<<<>>>>)}

\* the tests of suite S of Speedometer2: A with any series, B with one
TestDicts ==
    UNION {[D -> SeriesChoices] : D \in SUBSET {"A"}}
        \cup {"B" :> FlatSeries(<<2>>) @@ f :
                 f \in UNION {[D -> SeriesChoices] : D \in SUBSET {"A"}}}

TestResultsChoices ==
    {(IF f = <<>> THEN EmptyDict ELSE "Speedometer2" :> ("S" :> f))
        @@ (IF other THEN "Speedometer3" :> ("S" :> ("A" :> FlatSeries(<<3>>)))
                     ELSE EmptyDict) :
       f \in TestDicts, other \in BOOLEAN}

ScoreChoices == {<<>>, <<0>>, <<2, 4>>}
TimeChoices == {<<>>, <<0>>, <<3>>}
TotalsDicts ==
    {[totalTime |-> t, score |-> sc] : t \in TimeChoices, sc \in ScoreChoices}
        \cup {[totalTime |-> t] : t \in TimeChoices}

BenchmarkTotalsChoices ==
    {(IF present THEN "Speedometer2" :> d ELSE EmptyDict)
        @@ (IF other
            THEN "Speedometer3" :> [totalTime |-> <<1, 2>>, score |-> <<3>>]
            ELSE EmptyDict) :
       d \in TotalsDicts, present \in BOOLEAN, other \in BOOLEAN}

GoodTestResults == "Speedometer2" :> ("S" :> ("A" :> FlatSeries(<<3>>)))
GoodTotals == "Speedometer2" :> [totalTime |-> <<3>>, score |-> <<2, 4>>]

\* compare.py:51-59: the two files are parsed; run.py is not running
CompareInit ==
    /\ test_results = EmptyDict
    /\ benchmark_totals = EmptyDict
    /\ pc = "main"
    /\ run = 0
    /\ cwd = OrigDir
    /\ current_dir = None
    /\ attempts = 0
    /\ pending = None
    /\ reported = FALSE
    /\ written = 0
    /\ exit_status = 0
    /\ listener = [k \in Runs |-> "none"]
    /\ shutdown_request = [k \in Runs |-> FALSE]
    /\ running_ladybird_process = [k \in Runs |-> NoProcess]
    /\ iteration_count = [k \in Runs |-> 0]
    /\ child = [k \in Runs |-> "none"]
    /\ sigints = [k \in Runs |-> 0]
    /\ reqs = <<>>
    /\ queue = <<>>
    /\ cur = 0
    /\ hpc = "idle"
    /\ cmp_pc = "loaded"
    /\ table = <<>>
    /\ score_table = <<>>
    /\ \/ /\ old_data \in [test_results : TestResultsChoices,
                           benchmark_totals : {GoodTotals}]
          /\ new_data \in [test_results : TestResultsChoices,
                           benchmark_totals : {GoodTotals}]
       \/ /\ old_data \in [test_results : {GoodTestResults},
                           benchmark_totals : BenchmarkTotalsChoices]
          /\ new_data \in [test_results : {GoodTestResults},
                           benchmark_totals : BenchmarkTotalsChoices]

\* compare.py:61-94; an exception ends the program with a traceback
CompareTests ==
    /\ cmp_pc = "loaded"
    /\ LET result == compareTests(old_data, new_data)
       IN  IF result.raised
           THEN /\ cmp_pc' = "failed"
                /\ table' = table
           ELSE /\ cmp_pc' = "tests_printed"
                /\ table' = result.rows
    /\ UNCHANGED <<old_data, new_data, score_table>>
    /\ UNCHANGED <<aggregator, controller, server, process, serving>>

\* compare.py:96-146
CompareBenchmarks ==
    /\ cmp_pc = "tests_printed"
    /\ LET result == compareBenchmarks(old_data, new_data)
       IN  IF result.raised
           THEN /\ cmp_pc' = "failed"
                /\ score_table' = score_table
           ELSE /\ cmp_pc' = "done"
                /\ score_table' = result.rows
    /\ UNCHANGED <<old_data, new_data, table>>
    /\ UNCHANGED <<aggregator, controller, server, process, serving>>

CompareNext == CompareTests \/ CompareBenchmarks
CompareSpec == CompareInit /\ [][CompareNext]_vars

(***************************************************************************)
(* What the properties below speak about.                                  *)
(***************************************************************************)
Routes == {"/TestComplete", "/IterationComplete", "/BenchmarkComplete"}
Finished(r) == reqs[r].state \in {"done", "error"}
IsPost(r, path) == reqs[r].method = "POST" /\ reqs[r].path = path
Field(r, k) ==
    IF reqs[r].body.ok /\ Has(reqs[r].body.json, k)
    THEN Get(reqs[r].body.json, k) ELSE JNum(0)
HasField(r, k) == reqs[r].body.ok /\ Has(reqs[r].body.json, k)

\* the iterations of benchmark b that were acknowledged with 200
Completed(b) ==
    Cardinality({r \in DOMAIN reqs :
                    /\ IsPost(r, "/IterationComplete")
                    /\ reqs[r].status = 200
                    /\ Field(r, "benchmark") = JStr(b)})

\* request r got as far as the call of append_table_data
Ingested(r) ==
    /\ IsPost(r, "/IterationComplete")
    /\ HasField(r, "benchmark") /\ HasField(r, "results")
    /\ \/ Finished(r)
       \/ cur = r /\ hpc = "respond"

\* the payload has a node suite -> test that carries a numeric total
ContainsLeaf(results, suite, test) ==
    /\ IsDict(results) /\ Has(results, "tests")
    /\ IsDict(Get(results, "tests")) /\ Has(Get(results, "tests"), suite)
    /\ LET su == Get(Get(results, "tests"), suite)
       IN  /\ IsDict(su) /\ Has(su, "tests")
           /\ IsDict(Get(su, "tests")) /\ Has(Get(su, "tests"), test)
           /\ LET te == Get(Get(su, "tests"), test)
              IN  IsDict(te) /\ Has(te, "total") /\ IsNumber(Get(te, "total"))

LeafIterations(b, suite, test) ==
    Cardinality({r \in DOMAIN reqs :
                    /\ Ingested(r)
                    /\ Field(r, "benchmark") = JStr(b)
                    /\ ContainsLeaf(Field(r, "results"), suite, test)})

Series(b, suite, test) ==
    IF /\ b \in DOMAIN test_results
       /\ suite \in DOMAIN test_results[b]
       /\ test \in DOMAIN test_results[b][suite]
    THEN test_results[b][suite][test] ELSE <<>>

TotalsSeries(b, k) ==
    IF b \in DOMAIN benchmark_totals /\ k \in DOMAIN benchmark_totals[b]
    THEN benchmark_totals[b][k] ELSE <<>>

SuiteNames == {"S"}
TestNames == {"A", "B", "Sync"}

\* the payload of r breaks the page contract of its route
BadPayload(r) ==
    \/ /\ IsPost(r, "/IterationComplete")
       /\ \/ ~HasField(r, "benchmark")
          \/ ~HasField(r, "results")
          \/ ~IsDict(Field(r, "results"))
          \/ ~Has(Field(r, "results"), "total")
          \/ ~Has(Field(r, "results"), "score")
    \/ /\ IsPost(r, "/TestComplete")
       /\ \/ ~HasField(r, "benchmark")
          \/ ~HasField(r, "suite")
          \/ ~HasField(r, "test")

(***************************************************************************)
(* C1: whenever no request is being handled, for every benchmark b in      *)
(* benchmark_totals the score and totalTime sequences both exist, have the *)
(* same length, and that length is the number of iterations of b that were *)
(* acknowledged with 200.                                                  *)
(***************************************************************************)
C1_TotalsParallel ==
    cur = 0 =>
        \A b \in DOMAIN benchmark_totals :
            /\ DOMAIN benchmark_totals[b] = {"totalTime", "score"}
            /\ Len(benchmark_totals[b]["score"]) = Len(benchmark_totals[b]["totalTime"])
            /\ Len(benchmark_totals[b]["score"]) = Completed(b)

(***************************************************************************)
(* C2: the length of the series of every TestKey equals the number of      *)
(* ingested iterations whose payload contained that (suite, test) leaf     *)
(* with a numeric total, whatever the nesting depth of the payloads.       *)
(***************************************************************************)
C2_OneSamplePerIteration ==
    \A b \in Benchmarks : \A su \in SuiteNames : \A te \in TestNames :
        Len(Series(b, su, te)) = LeafIterations(b, su, te)

(***************************************************************************)
(* C3: a signal task exists for a /BenchmarkComplete request only after    *)
(* the 200 response of that request was written, the handler has returned  *)
(* by then, and every SIGINT sent to a child was sent by such a task.      *)
(***************************************************************************)
C3_RespondBeforeSignal ==
    /\ \A r \in DOMAIN reqs :
          reqs[r].task # "none" =>
              /\ reqs[r].status = 200
              /\ reqs[r].state = "done"
              /\ cur # r
    /\ \A k \in Runs :
          sigints[k] = Cardinality({r \in DOMAIN reqs :
                                      reqs[r].run = k /\ reqs[r].task = "signalled"})

C3_Witness ==
    \E r \in DOMAIN reqs :
        /\ IsPost(r, "/BenchmarkComplete")
        /\ reqs[r].task = "signalled"
        /\ reqs[r].status = 200
        /\ sigints[reqs[r].run] = 1

(***************************************************************************)
(* C4: a /BenchmarkComplete request that reached the server of a run whose *)
(* child was launched never ends with its task having sent no signal to    *)
(* the process handle of that run.                                         *)
(***************************************************************************)
C4_CompleteSignalsChild ==
    \A r \in DOMAIN reqs :
        (IsPost(r, "/BenchmarkComplete") /\ child[reqs[r].run] # "none")
            => reqs[r].task # "skipped"

(***************************************************************************)
(* C5: every step that leaves the try block of run_benchmark enters the    *)
(* except clause or the finally block, every step that leaves the except   *)
(* clause enters the finally block, and when the finally block has run to  *)
(* its end (no further interrupt) the listener of the run is stopped and   *)
(* closed and the working directory is the one saved before the run.       *)
(***************************************************************************)
C5_AlwaysDrains ==
    [][/\ (pc \in TryBlock /\ pc' \notin TryBlock)
            => pc' \in {"except", "finally"}
       /\ (pc \in ExceptBlock /\ pc' \notin ExceptBlock) => pc' = "finally"
       /\ (pc = "finally" /\ pc' # pc /\ pc' # "exited")
            => shutdown_request'[run]
       /\ (pc = "chdir_back" /\ pc' # pc /\ pending' # "KeyboardInterrupt")
            => /\ listener'[run] = "closed"
               /\ cwd' = current_dir
               /\ cwd' = OrigDir]_vars

C5_Witness ==
    /\ pc = "exited"
    /\ pending = "SystemExit"
    /\ child[run] = "alive"
    /\ listener[run] = "closed"
    /\ cwd = OrigDir

(***************************************************************************)
(* C6 as stated: after an interrupt in the blocking wait the listener is   *)
(* shut down before the failure is reported and before the process exits.  *)
(***************************************************************************)
C6_ShutdownBeforeReport ==
    /\ reported => listener[run] \in {"stopped", "closed"}
    /\ (pc = "exited" /\ pending = "SystemExit")
          => listener[run] \in {"stopped", "closed"}

(***************************************************************************)
(* C6 amended: after an interrupt caught by the except clause, the failure *)
(* message is printed while the listener is still serving, and the         *)
(* listener is shut down and closed before the process exits with 1.       *)
(***************************************************************************)
C6_ShutdownBeforeExit ==
    /\ pc = "sys_exit"
          => reported /\ listener[run] = "serving" /\ ~shutdown_request[run]
    /\ (pc = "exited" /\ pending = "SystemExit")
          => reported /\ exit_status = 1 /\ listener[run] = "closed"

C6_Witness ==
    /\ pc = "exited"
    /\ pending = "SystemExit"
    /\ reported
    /\ exit_status = 1
    /\ listener[run] = "closed"
    /\ child[run] = "exited"

(***************************************************************************)
(* C7: when the orchestrator has exited after an interrupt caught in a run *)
(* whose child was launched, a termination signal was sent to that child.  *)
(***************************************************************************)
C7_InterruptSignalsChild ==
    (pc = "exited" /\ pending = "SystemExit" /\ child[run] # "none")
        => sigints[run] > 0

(***************************************************************************)
(* C8: every step that changes test_results or benchmark_totals is the     *)
(* ingestion step of the handler of a POST to /IterationComplete; no step  *)
(* of another route, of a signal task or of the controller changes them.   *)
(***************************************************************************)
C8_SoleMutationPath ==
    [][aggregator' # aggregator
         => /\ cur # 0
            /\ hpc = "dispatch"
            /\ IsPost(cur, "/IterationComplete")]_vars

C8_Witness ==
    /\ benchmark_totals # EmptyDict
    /\ \E r \in DOMAIN reqs :
          /\ reqs[r].path \in {"/TestComplete", "/BenchmarkComplete", "/Other"}
          /\ Finished(r)

(***************************************************************************)
(* C9: a handled POST to /IterationComplete or /TestComplete whose body is *)
(* malformed or lacks a required field was answered with 500, and it added *)
(* nothing to benchmark_totals.                                            *)
(***************************************************************************)
C9_MalformedAnswered500 ==
    /\ \A r \in DOMAIN reqs :
          (Finished(r) /\ BadPayload(r)) => reqs[r].status = 500
    /\ \A b \in Benchmarks :
          Len(TotalsSeries(b, "totalTime")) =
              Cardinality({r \in DOMAIN reqs :
                              /\ Ingested(r)
                              /\ ~BadPayload(r)
                              /\ Field(r, "benchmark") = JStr(b)})

(***************************************************************************)
(* C10 as stated: every handled request that is not a POST to one of the   *)
(* three routes was answered with 404.                                     *)
(***************************************************************************)
C10_Always404 ==
    \A r \in DOMAIN reqs :
        (Finished(r) /\ ~(reqs[r].method = "POST" /\ reqs[r].path \in Routes))
            => reqs[r].status = 404

(***************************************************************************)
(* C10 amended: every handled POST to a path that is none of the three     *)
(* routes was answered with 404; a GET was answered by the inherited file  *)
(* handler, with 200 for a file of the benchmark directory and 404 for a   *)
(* path that does not exist; a method without a handler with 501.          *)
(***************************************************************************)
C10_UnknownPost404 ==
    \A r \in DOMAIN reqs :
        Finished(r) =>
            /\ (reqs[r].method = "POST" /\ reqs[r].path \notin Routes)
                  => reqs[r].status = 404
            /\ reqs[r].method = "GET"
                  => reqs[r].status =
                        IF reqs[r].path \in Files(BenchmarkDir(reqs[r].run))
                        THEN 200 ELSE 404
            /\ reqs[r].method \notin {"GET", "HEAD", "POST"}
                  => reqs[r].status = 501

C10_Witness ==
    /\ \E r \in DOMAIN reqs :
          Finished(r) /\ IsPost(r, "/Other") /\ reqs[r].status = 404
    /\ \E r \in DOMAIN reqs :
          Finished(r) /\ reqs[r].method = "GET" /\ reqs[r].status = 200

(***************************************************************************)
(* The benchmarks of the second table and the series of one of them.       *)
(***************************************************************************)
AllBenchmarks ==
    DOMAIN old_data.benchmark_totals \cup DOMAIN new_data.benchmark_totals
ScoreRowOf(bench) ==
    CHOOSE row \in {score_table[i] : i \in DOMAIN score_table} : row.bench = bench
MeanRatio(num_vals, den_vals) ==
    Ratio(Sum(num_vals) * Len(den_vals), Len(num_vals) * Sum(den_vals))

(***************************************************************************)
(* C11: the benchmark-level comparison never fails on an empty series: it  *)
(* produces one row for every benchmark of the union of the two files; the *)
(* ratio cell is the placeholder when the score (or totalTime) series is   *)
(* empty or absent on either side or the mean in the denominator is zero,  *)
(* and otherwise the score ratio is new mean / old mean and the time ratio *)
(* old mean / new mean.                                                    *)
(***************************************************************************)
C11_BenchmarkRowsNeverFail ==
    /\ cmp_pc = "failed" => compareTests(old_data, new_data).raised
    /\ cmp_pc = "done" =>
          /\ Len(score_table) = Cardinality(AllBenchmarks)
          /\ \A b \in AllBenchmarks :
                LET old_score == TotalsOf(old_data, b, "score")
                    new_score == TotalsOf(new_data, b, "score")
                    old_time == TotalsOf(old_data, b, "totalTime")
                    new_time == TotalsOf(new_data, b, "totalTime")
                IN  /\ \E i \in DOMAIN score_table : score_table[i].bench = b
                    /\ ScoreRowOf(b).score_improvement =
                          IF \/ old_score = <<>> \/ new_score = <<>>
                             \/ Sum(old_score) = 0
                          THEN Placeholder ELSE MeanRatio(new_score, old_score)
                    /\ ScoreRowOf(b).speedup =
                          IF \/ old_time = <<>> \/ new_time = <<>>
                             \/ Sum(new_time) = 0
                          THEN Placeholder ELSE MeanRatio(old_time, new_time)

(***************************************************************************)
(* C12: the test-level comparison fails on no input, a stored empty series *)
(* and a zero new mean included.  For every row: when the series of either *)
(* side is empty or absent the speedup is blank, the absent side shows the *)
(* placeholder and the present side its formatted mean; when the mean of   *)
(* the new series is zero the speedup is empty or the placeholder;         *)
(* otherwise the speedup is old mean / new mean.                           *)
(***************************************************************************)
C12_TestRowsNeverFail ==
    /\ cmp_pc = "failed" => ~compareTests(old_data, new_data).raised
    /\ (cmp_pc # "loaded" /\ ~compareTests(old_data, new_data).raised) =>
          \A i \in DOMAIN table :
              LET old_vals == ValuesOf(extract_tests(old_data), table[i].key)
                  new_vals == ValuesOf(extract_tests(new_data), table[i].key)
              IN  IF old_vals = <<>> \/ new_vals = <<>>
                  THEN /\ table[i].speedup = Blank
                       /\ table[i].old =
                             IF old_vals = <<>> THEN Placeholder
                             ELSE format_mean_confidence_interval(old_vals)
                       /\ table[i].new =
                             IF new_vals = <<>> THEN Placeholder
                             ELSE format_mean_confidence_interval(new_vals)
                  ELSE IF Sum(new_vals) = 0
                       THEN table[i].speedup \in {Blank, Placeholder}
                       ELSE table[i].speedup = MeanRatio(old_vals, new_vals)

(***************************************************************************)
(* C13: compareTests(A, B) and compareTests(B, A) enumerate the same keys: *)
(* the rows of each call are exactly the union of the TestKeys of the two  *)
(* sets, each key once, in lexicographic order of (benchmark, suite, test),*)
(* and the old and new columns of the two calls are swapped.               *)
(***************************************************************************)
C13_SymmetricKeys ==
    cmp_pc # "loaded" =>
        LET there == compareTests(old_data, new_data)
            back == compareTests(new_data, old_data)
            keys == SortedKeys(StoredKeys(old_data) \cup StoredKeys(new_data))
        IN  /\ ~there.raised
            /\ ~back.raised
            /\ table = there.rows
            /\ [i \in DOMAIN table |-> table[i].key] = keys
            /\ [i \in DOMAIN back.rows |-> back.rows[i].key] = keys
            /\ \A i \in DOMAIN table :
                  /\ back.rows[i].old = table[i].new
                  /\ back.rows[i].new = table[i].old

(***************************************************************************)
(* The samples a payload holds for one TestKey: the numeric totals at or   *)
(* below the node of the test, in the order of the walk.                   *)
(***************************************************************************)
RECURSIVE TotalsBelow(_)
RECURSIVE TotalsBelowItems(_, _)
TotalsBelow(node) ==
    IF ~IsDict(node) THEN <<>>
    ELSE (IF Has(node, "total") /\ IsNumber(Get(node, "total"))
          THEN <<Get(node, "total")>> ELSE <<>>)
         \o (IF Has(node, "tests") /\ IsDict(Get(node, "tests"))
             THEN TotalsBelowItems(Get(node, "tests").d, 1) ELSE <<>>)
TotalsBelowItems(items, i) ==
    IF i > Len(items) THEN <<>>
    ELSE TotalsBelow(items[i][2]) \o TotalsBelowItems(items, i + 1)

\* the node suite -> test of a payload, or a value that is no node
TestNode(results, suite, test) ==
    IF /\ IsDict(results) /\ Has(results, "tests")
       /\ IsDict(Get(results, "tests")) /\ Has(Get(results, "tests"), suite)
       /\ IsDict(Get(Get(results, "tests"), suite))
       /\ Has(Get(Get(results, "tests"), suite), "tests")
       /\ IsDict(Get(Get(Get(results, "tests"), suite), "tests"))
       /\ Has(Get(Get(Get(results, "tests"), suite), "tests"), test)
    THEN Get(Get(Get(Get(results, "tests"), suite), "tests"), test)
    ELSE JNum(0)

\* the samples of (b, suite, test) in the iterations ingested among the
\* first n requests, in the order of their arrival
RECURSIVE SamplesUpTo(_, _, _, _)
SamplesUpTo(n, b, suite, test) ==
    IF n = 0 THEN <<>>
    ELSE SamplesUpTo(n - 1, b, suite, test)
         \o (IF Ingested(n) /\ Field(n, "benchmark") = JStr(b)
             THEN TotalsBelow(TestNode(Field(n, "results"), suite, test))
             ELSE <<>>)

(***************************************************************************)
(* C14: the key of a first-level "tests" entry is the suite and the key of *)
(* the entry below it is the test; every numeric total at or below that    *)
(* test node is appended to the series of that same (benchmark, suite,     *)
(* test), and the totals of the root and of a suite node create no series. *)
(***************************************************************************)
C14_TotalsAttachToTestKey ==
    \A b \in Benchmarks : \A su \in SuiteNames : \A te \in TestNames :
        Series(b, su, te) = SamplesUpTo(Len(reqs), b, su, te)

(***************************************************************************)
(* C15: the browser of a run is launched only after a connection to the    *)
(* server of that run has succeeded.  start_http_server makes at most      *)
(* ConnectAttempts attempts and then either returns after a successful     *)
(* attempt or shuts the server down and exits with status 1; after a       *)
(* failed startup no child is ever launched.                               *)
(***************************************************************************)
C15_LaunchAfterConnect ==
    [][/\ \A k \in Runs :
             (child[k] = "none" /\ child'[k] # "none")
                 => k = run /\ pc = "Popen" /\ listener[k] = "serving"
       /\ (pc # "Popen" /\ pc' = "Popen")
             => /\ pc = "connect"
                /\ attempts < ConnectAttempts
                /\ listener[run] = "serving"
       /\ attempts' <= ConnectAttempts
       /\ (pc = "connect" /\ attempts = ConnectAttempts)
             => pc' \in {"connect", "startup_shutdown", "exited"}
       /\ pc = "startup_shutdown"
             => /\ pc' \in {"startup_shutdown", "exited"}
                /\ child' = child
                /\ (pc' = "exited" /\ pending' # "KeyboardInterrupt")
                      => exit_status' = 1 /\ listener[run] = "stopped"
      ]_vars

C15_Witness ==
    /\ pc = "exited"
    /\ exit_status = 1
    /\ run = 2
    /\ attempts = ConnectAttempts
    /\ child[1] = "exited"
    /\ child[2] = "none"
    /\ listener[2] = "stopped"

(***************************************************************************)
(* C16: the runs are strictly sequential: at any time at most one listener *)
(* is serving and at most one child is alive, and the listener of run k is *)
(* shut down and closed, and the child of run k gone, before the listener  *)
(* of run k + 1 is started.                                                *)
(***************************************************************************)
C16_RunsSequential ==
    /\ Cardinality({k \in Runs : listener[k] \in {"serving", "stopped"}}) <= 1
    /\ Cardinality({k \in Runs : child[k] = "alive"}) <= 1
    /\ \A k \in Runs :
          (k + 1 \in Runs /\ listener[k + 1] # "none")
              => listener[k] = "closed" /\ child[k] = "exited"
    /\ \A k \in Runs : (listener[k] # "none" \/ child[k] # "none") => k <= run

C16_Witness ==
    /\ listener[1] = "closed"
    /\ child[1] = "exited"
    /\ listener[2] = "serving"
    /\ child[2] = "alive"

(***************************************************************************)
(* C17: the requests are handled by one serving task, one at a time: no    *)
(* two requests are being handled at the same moment, a request that waits *)
(* is taken up only when no handler is running, and the aggregator is      *)
(* written only by the handler of the one request in progress.             *)
(***************************************************************************)
C17_OneHandlerAtATime ==
    [][/\ Cardinality({r \in DOMAIN reqs : reqs[r].state = "handling"}) <= 1
       /\ \A r \in DOMAIN reqs : reqs[r].state = "handling" => cur = r
       /\ \A r \in DOMAIN reqs :
             (reqs[r].state = "queued" /\ reqs'[r].state # "queued")
                 => /\ cur = 0
                    /\ \A o \in DOMAIN reqs : reqs[o].state # "handling"
       /\ (cur # 0 /\ reqs'[cur].state = "handling") => cur' = cur
       /\ aggregator' # aggregator
             => cur # 0 /\ reqs[cur].state = "handling" /\ cur' \in {cur, 0}
      ]_vars

C17_Witness ==
    /\ cur # 0
    /\ hpc = "respond"
    /\ IsPost(cur, "/IterationComplete")
    /\ queue # <<>>
    /\ test_results # EmptyDict

IsPrefix(s, t) == Len(s) <= Len(t) /\ SubSeq(t, 1, Len(s)) = s

(***************************************************************************)
(* C18: the aggregator is append-only: in every step every series of       *)
(* test_results and of benchmark_totals is a prefix of the series of the   *)
(* same key after the step, and no benchmark, suite, test or totals key is *)
(* ever removed.                                                           *)
(***************************************************************************)
C18_AppendOnly ==
    [][/\ \A b \in DOMAIN test_results :
             /\ b \in DOMAIN test_results'
             /\ \A su \in DOMAIN test_results[b] :
                   /\ su \in DOMAIN test_results'[b]
                   /\ \A te \in DOMAIN test_results[b][su] :
                         /\ te \in DOMAIN test_results'[b][su]
                         /\ IsPrefix(test_results[b][su][te],
                                     test_results'[b][su][te])
       /\ \A b \in DOMAIN benchmark_totals :
             /\ b \in DOMAIN benchmark_totals'
             /\ \A k \in DOMAIN benchmark_totals[b] :
                   /\ k \in DOMAIN benchmark_totals'[b]
                   /\ IsPrefix(benchmark_totals[b][k], benchmark_totals'[b][k])
      ]_vars

C18_Witness ==
    /\ Len(Series("Speedometer2", "S", "A")) = 2
    /\ Len(Series("Speedometer2", "S", "B")) = 2
    /\ Len(TotalsSeries("Speedometer2", "score")) = 2
    /\ cur = 0

(***************************************************************************)
(* C19: the result set is written exactly once, after the last selected    *)
(* run has drained: nothing is written while a run may still follow, a     *)
(* program that ends with status 0 has written once, with every listener   *)
(* closed and every child gone, and a program that aborts with a status    *)
(* other than 0 (startup failure, missing benchmark directory, user        *)
(* interruption) has written nothing.                                      *)
(***************************************************************************)
C19_WrittenOnceAtTheEnd ==
    /\ written <= 1
    /\ pc # "exited" => written = 0
    /\ (pc = "exited" /\ exit_status = 0) <=> written = 1
    /\ written = 1 =>
          /\ run = NumRuns
          /\ pending = None
          /\ \A k \in Runs : listener[k] = "closed" /\ child[k] = "exited"
          /\ cur = 0

C19_Witness ==
    /\ pc = "exited"
    /\ exit_status = 0
    /\ written = 1
    /\ Len(TotalsSeries("Speedometer2", "score")) = 1
    /\ Len(TotalsSeries("Speedometer3", "score")) = 1

(***************************************************************************)
(* C20: once the child of a run has exited, the controller eventually      *)
(* leaves run_benchmark (it is back in the loop of main, or the program    *)
(* has exited), whatever requests are waiting or being handled: it blocks  *)
(* forever neither in shutdown() nor in join().                            *)
(***************************************************************************)
C20_DrainCompletes ==
    (child[1] = "exited") ~> (pc \in {"loop", "exited"})

C20_Witness ==
    /\ pc = "loop"
    /\ child[1] = "exited"
    /\ listener[1] = "closed"
    /\ queue # <<>>
    /\ \E r \in DOMAIN reqs : reqs[r].state = "error" /\ ~reqs[r].complete
====
